---- MODULE Spec2Model ----
(***************************************************************************)
(* expdb: the storage layer (src/expdb/expdb.py, class ExpDB) over the     *)
(* three tables project / experiment / experiment_state, and the command   *)
(* line front end (src/expdb/expdb_cli.py).                                *)
(*                                                                         *)
(* A table is the set of its rows.  A row keeps its JSON column as the     *)
(* encoded JSON object; a query decodes it again (json.dumps on the way    *)
(* in, json.loads on the way out, as sqlalchemy's JSON type does).         *)
(* Every handler is one action: it runs the handler's transaction scopes   *)
(* to the end and leaves what the caller saw in `last`.                    *)
(***************************************************************************)
EXTENDS Integers, Sequences, FiniteSets, TLC

VARIABLES project, experiment, experiment_state, now, writes, last

vars == <<project, experiment, experiment_state, now, writes, last>>

----------------------------------------------------------------------------
(* Bounds of the model *)

MaxWrites == 2
MaxClock == 2

(* Python's None, for the string columns and for an omitted argument *)
NoneVal == "None"
(* a NULL creation_time; the server clock starts at 1 *)
NoTime == 0

Names == {"p1", "p2"}
UuidPool == {"u1", "u2"}
ExpNames == {NoneVal, "e"}
NoFilter == {NoneVal}

----------------------------------------------------------------------------
(* Python values handed in as `data`, and their JSON encoding *)

StrKey(s) == [kt |-> "str", ks |-> s]
IntKey(s) == [kt |-> "int", ks |-> s]
EmptyItems == [k \in {} |-> 0]
Dict(f) == [ty |-> "dict", items |-> f]
PyObject == [ty |-> "object", items |-> EmptyItems]

DataA1 == Dict(StrKey("a") :> 1)
DataI1 == Dict(IntKey("1") :> 1)
DataB2 == Dict(StrKey("b") :> 2)
DataA3 == Dict(StrKey("a") :> 3)

CreateData == {DataA1, DataI1, PyObject}
UpdateData == {DataB2, DataA3, PyObject}

is_jsonable(x) == x.ty = "dict"

(* json.dumps: every key is written as a string.  No dict encoded here     *)
(* holds an int key and a str key that are written the same.               *)
JsonDumps(x) ==
    [s \in {k.ks : k \in DOMAIN x.items} |->
        IF IntKey(s) \in DOMAIN x.items THEN x.items[IntKey(s)]
        ELSE x.items[StrKey(s)]]

JsonLoads(j) == Dict([k \in {StrKey(s) : s \in DOMAIN j} |-> j[k.ks]])

(* dict.update *)
DictUpdate(e, d) ==
    Dict([k \in DOMAIN e.items \cup DOMAIN d.items |->
            IF k \in DOMAIN d.items THEN d.items[k] ELSE e.items[k]])

----------------------------------------------------------------------------
(* The mapped classes: the attributes a constructor keyword may name *)

ExperimentStateAttrs ==
    {"uuid", "name", "tags", "data", "experiment_uuid", "description",
     "creation_time", "experiment", "hidden"}

ExperimentAttrs ==
    {"uuid", "name", "tags", "data", "project_name", "description",
     "creation_time", "project", "states", "hidden"}

ProjectAttrs ==
    {"name", "tags", "description", "data", "creation_time", "experiments",
     "hidden"}

(* the declarative constructor: a keyword that is no attribute of the     *)
(* class is a TypeError                                                    *)
Construct(attrs, kwargs) ==
    IF DOMAIN kwargs \subseteq attrs THEN "ok" ELSE "TypeError"

(* the methods class ExpDB defines *)
ExpDBAttrs ==
    {"session_scope", "gen_short_uuid", "run_query_with_optional_session",
     "run_get", "create_project", "get_project", "get_projects",
     "create_experiment", "update_project_data", "update_experiment_data",
     "update_experiment_state_data", "get_experiment", "get_experiments",
     "create_experiment_state", "get_experiment_state",
     "get_experiment_states", "hide_experiment_state", "hide_project",
     "hide_experiment", "sql_verbose", "db_connection_string", "engine",
     "sessionmaker", "uuid_length"}

----------------------------------------------------------------------------
(* The store, as a handler sees it *)

DB == [project |-> project, experiment |-> experiment,
       experiment_state |-> experiment_state]

PrimaryKey(table, row) == IF table = "project" THEN row.name ELSE row.uuid

(* the unique constraints of a table other than its primary key: a NULL   *)
(* name never collides                                                     *)
UniqueClash(table, rows, row) ==
    /\ table # "project"
    /\ row.name # NoneVal
    /\ \E r \in rows : r.name = row.name

NoWork == [kind |-> "none"]
Insert(table, row) == [kind |-> "insert", table |-> table, row |-> row]
Update(table, row) == [kind |-> "update", table |-> table, row |-> row]

(* session.flush: the pending INSERT or UPDATE of the unit of work.  The   *)
(* JSON column is bound through json.dumps; creation_time of a new row is  *)
(* the server default now().                                               *)
(* Flush without the primary key and unique checks *)
FlushNoPrimaryKey(db, w, t) ==
    IF w.kind = "none" THEN [status |-> "ok", db |-> db]
    ELSE IF w.kind = "insert"
    THEN [status |-> "ok",
          db |-> [db EXCEPT ![w.table] = @ \cup
                   {[w.row EXCEPT !.data = JsonDumps(@),
                                  !.creation_time = t]}]]
    ELSE [status |-> "ok",
          db |-> [db EXCEPT ![w.table] =
                   {IF PrimaryKey(w.table, r) = PrimaryKey(w.table, w.row)
                    THEN [w.row EXCEPT !.data = JsonDumps(@)]
                    ELSE r : r \in @}]]

(* Flush of a table whose creation_time has no server default *)
FlushNoServerDefault(db, w, t) ==
    IF w.kind = "none" THEN [status |-> "ok", db |-> db]
    ELSE IF w.kind = "insert"
    THEN IF \/ \E r \in db[w.table] :
                  PrimaryKey(w.table, r) = PrimaryKey(w.table, w.row)
            \/ UniqueClash(w.table, db[w.table], w.row)
         THEN [status |-> "IntegrityError", db |-> db]
         ELSE [status |-> "ok",
               db |-> [db EXCEPT ![w.table] = @ \cup
                        {[w.row EXCEPT !.data = JsonDumps(@)]}]]
    ELSE [status |-> "ok",
          db |-> [db EXCEPT ![w.table] =
                   {IF PrimaryKey(w.table, r) = PrimaryKey(w.table, w.row)
                    THEN [w.row EXCEPT !.data = JsonDumps(@)]
                    ELSE r : r \in @}]]

(* Flush whose INSERT replaces the stored row of the same primary key *)
FlushReplace(db, w, t) ==
    IF w.kind = "none" THEN [status |-> "ok", db |-> db]
    ELSE IF w.kind = "insert"
    THEN [status |-> "ok",
          db |-> [db EXCEPT ![w.table] =
                   {r \in @ : PrimaryKey(w.table, r) #
                                 PrimaryKey(w.table, w.row)} \cup
                   {[w.row EXCEPT !.data = JsonDumps(@),
                                  !.creation_time = t]}]]
    ELSE [status |-> "ok",
          db |-> [db EXCEPT ![w.table] =
                   {IF PrimaryKey(w.table, r) = PrimaryKey(w.table, w.row)
                    THEN [w.row EXCEPT !.data = JsonDumps(@)]
                    ELSE r : r \in @}]]

Flush(db, w, t) ==
    IF w.kind = "none" THEN [status |-> "ok", db |-> db]
    ELSE IF w.kind = "insert"
    THEN IF \/ \E r \in db[w.table] :
                  PrimaryKey(w.table, r) = PrimaryKey(w.table, w.row)
            \/ UniqueClash(w.table, db[w.table], w.row)
         THEN [status |-> "IntegrityError", db |-> db]
         ELSE [status |-> "ok",
               db |-> [db EXCEPT ![w.table] = @ \cup
                        {[w.row EXCEPT !.data = JsonDumps(@),
                                       !.creation_time = t]}]]
    ELSE [status |-> "ok",
          db |-> [db EXCEPT ![w.table] =
                   {IF PrimaryKey(w.table, r) = PrimaryKey(w.table, w.row)
                    THEN [w.row EXCEPT !.data = JsonDumps(@)]
                    ELSE r : r \in @}]]

(* with self.session_scope() as session: the body has run and either      *)
(* raised (body.status) or left its unit of work; commit on a normal exit, *)
(* rollback and re-raise on any exception, close in both cases.            *)
(* session_scope whose except branch rolls back and does not re-raise *)
session_scopeSwallow(db, body, t) ==
    IF body.status # "ok"
    THEN [status |-> "ok", db |-> db, txn |-> "rollback", closed |-> TRUE]
    ELSE LET f == Flush(db, body.work, t)
         IN IF f.status # "ok"
            THEN [status |-> "ok", db |-> db, txn |-> "rollback",
                  closed |-> TRUE]
            ELSE [status |-> "ok", db |-> f.db, txn |-> "commit",
                  closed |-> TRUE]

session_scope(db, body, t) ==
    IF body.status # "ok"
    THEN [status |-> body.status, db |-> db, txn |-> "rollback",
          closed |-> TRUE]
    ELSE LET f == Flush(db, body.work, t)
         IN IF f.status # "ok"
            THEN [status |-> f.status, db |-> db, txn |-> "rollback",
                  closed |-> TRUE]
            ELSE [status |-> "ok", db |-> f.db, txn |-> "commit",
                  closed |-> TRUE]

(* a row as the ORM hands it out: the JSON column decoded *)
Load(r) == [r EXCEPT !.data = JsonLoads(@)]

----------------------------------------------------------------------------
(* Reads *)

Raise(e) == [status |-> e, value |-> {}]
Return(v) == [status |-> "ok", value |-> v]

(* sess.query(..).filter(..).all(): names/uuids is a list of              *)
(* identities or None (NoFilter); the result list is kept as a set.        *)
(* get_projects without the hidden filter *)
get_projectsUnfiltered(db, names, show_hidden) ==
    {Load(r) : r \in {x \in db.project :
        names = NoFilter \/ x.name \in names}}

get_projects(db, names, show_hidden) ==
    {Load(r) : r \in {x \in db.project :
        /\ (show_hidden \/ x.hidden = FALSE)
        /\ (names = NoFilter \/ x.name \in names)}}

get_experiments(db, uuids, show_hidden) ==
    {Load(r) : r \in {x \in db.experiment :
        /\ (show_hidden \/ x.hidden = FALSE)
        /\ (uuids = NoFilter \/ x.uuid \in uuids)}}

get_experiment_states(db, uuids, show_hidden) ==
    {Load(r) : r \in {x \in db.experiment_state :
        /\ (show_hidden \/ x.hidden = FALSE)
        /\ (uuids = NoFilter \/ x.uuid \in uuids)}}

(* run_get: at most one row; exactly one when the caller asserts it; None *)
(* (the empty value) or the row.                                           *)
run_get(result, assert_exists) ==
    IF Cardinality(result) > 1 THEN Raise("AssertionError")
    ELSE IF assert_exists /\ Cardinality(result) # 1
         THEN Raise("AssertionError")
         ELSE Return(result)

get_project(db, name, assert_exists) ==
    run_get(get_projects(db, {name}, FALSE), assert_exists)

get_experiment(db, uuid, assert_exists) ==
    run_get(get_experiments(db, {uuid}, FALSE), assert_exists)

get_experiment_state(db, uuid, assert_exists) ==
    run_get(get_experiment_states(db, {uuid}, FALSE), assert_exists)

(* run_query_with_optional_session with session=None: the read runs in a *)
(* scope of its own, which has nothing to write.                           *)
run_query_with_optional_session(db, q, t) ==
    LET s == session_scope(db, [status |-> q.status, work |-> NoWork], t)
    IN [status |-> s.status, value |-> q.value, db |-> s.db, txn |-> s.txn]

The(result) == CHOOSE r \in result : TRUE

----------------------------------------------------------------------------
(* Writes.  Each returns [status, value, db, txn]: what the caller gets,   *)
(* the store afterwards and how the writing scope ended ("none": the call  *)
(* failed before it opened one).                                           *)

Failed(e, db) == [status |-> e, value |-> {}, db |-> db, txn |-> "none"]

create_project(db, t, name, data, description, tags) ==
    IF ~is_jsonable(data) THEN Failed("AssertionError", db)
    ELSE
    LET kwargs == [name |-> name, description |-> description, tags |-> tags,
                   data |-> data, hidden |-> FALSE]
        c == Construct(ProjectAttrs, kwargs)
        row == [name |-> name, tags |-> tags, description |-> description,
                data |-> data, creation_time |-> NoTime, hidden |-> FALSE]
        s == session_scope(db,
               IF c # "ok" THEN [status |-> c, work |-> NoWork]
               ELSE [status |-> "ok", work |-> Insert("project", row)], t)
    IN IF s.status # "ok"
       THEN [status |-> s.status, value |-> {}, db |-> s.db, txn |-> s.txn]
       ELSE LET g == run_query_with_optional_session(s.db,
                         get_project(s.db, name, TRUE), t)
            IN [status |-> g.status, value |-> g.value, db |-> g.db,
                txn |-> s.txn]

create_experiment(db, t, new_id, project_name, data, name, description, tags) ==
    IF ~is_jsonable(data) THEN Failed("AssertionError", db)
    ELSE
    LET kwargs == [uuid |-> new_id, project_name |-> project_name,
                   name |-> name, description |-> description, tags |-> tags,
                   data |-> data, hidden |-> FALSE]
        c == Construct(ExperimentAttrs, kwargs)
        row == [uuid |-> new_id, name |-> name, tags |-> tags,
                data |-> data, project_name |-> project_name,
                description |-> description, creation_time |-> NoTime,
                hidden |-> FALSE]
        s == session_scope(db,
               IF c # "ok" THEN [status |-> c, work |-> NoWork]
               ELSE [status |-> "ok", work |-> Insert("experiment", row)], t)
    IN IF s.status # "ok"
       THEN [status |-> s.status, value |-> {}, db |-> s.db, txn |-> s.txn]
       ELSE LET g == run_query_with_optional_session(s.db,
                         get_experiment(s.db, new_id, TRUE), t)
            IN [status |-> g.status, value |-> g.value, db |-> g.db,
                txn |-> s.txn]

(* create_experiment_state builds an Experiment, not an ExperimentState,   *)
(* and hands it the keyword experiment_uuid.                               *)
create_experiment_state(db, t, new_id, experiment_uuid, data, name, description, tags) ==
    IF ~is_jsonable(data) THEN Failed("AssertionError", db)
    ELSE
    LET kwargs == [uuid |-> new_id, experiment_uuid |-> experiment_uuid,
                   name |-> name, description |-> description, tags |-> tags,
                   data |-> data, hidden |-> FALSE]
        c == Construct(ExperimentAttrs, kwargs)
        row == [uuid |-> new_id, name |-> name, tags |-> tags,
                data |-> data, project_name |-> NoneVal,
                description |-> description, creation_time |-> NoTime,
                hidden |-> FALSE]
        s == session_scope(db,
               IF c # "ok" THEN [status |-> c, work |-> NoWork]
               ELSE [status |-> "ok", work |-> Insert("experiment", row)], t)
    IN IF s.status # "ok"
       THEN [status |-> s.status, value |-> {}, db |-> s.db, txn |-> s.txn]
       ELSE LET g == run_query_with_optional_session(s.db,
                         get_experiment_state(s.db, new_id, TRUE), t)
            IN [status |-> g.status, value |-> g.value, db |-> g.db,
                txn |-> s.txn]

(* update_*_data: fetch inside the scope (assert_exists=True),             *)
(* obj.data.update(data), flag_modified, add, commit.  Returns None.       *)
MergeData(db, t, table, g, data) ==
    LET s == session_scope(db,
               IF g.status # "ok" THEN [status |-> g.status, work |-> NoWork]
               ELSE [status |-> "ok",
                     work |-> Update(table,
                        [The(g.value) EXCEPT !.data = DictUpdate(@, data)])],
               t)
    IN [status |-> s.status, value |-> {}, db |-> s.db, txn |-> s.txn]

(* hide_*: fetch inside the scope (assert_exists=True), obj.hidden = True, *)
(* commit as the scope ends.  Returns None.                                *)
SetHidden(db, t, table, g) ==
    LET s == session_scope(db,
               IF g.status # "ok" THEN [status |-> g.status, work |-> NoWork]
               ELSE [status |-> "ok",
                     work |-> Update(table,
                        [The(g.value) EXCEPT !.hidden = TRUE])],
               t)
    IN [status |-> s.status, value |-> {}, db |-> s.db, txn |-> s.txn]

update_project_data(db, t, name, data) ==
    IF ~is_jsonable(data) THEN Failed("AssertionError", db)
    ELSE MergeData(db, t, "project", get_project(db, name, TRUE), data)

update_experiment_data(db, t, uuid, data) ==
    IF ~is_jsonable(data) THEN Failed("AssertionError", db)
    ELSE MergeData(db, t, "experiment", get_experiment(db, uuid, TRUE), data)

update_experiment_state_data(db, t, uuid, data) ==
    IF ~is_jsonable(data) THEN Failed("AssertionError", db)
    ELSE MergeData(db, t, "experiment_state",
                   get_experiment_state(db, uuid, TRUE), data)

hide_experiment_state(db, t, experiment_state_uuid) ==
    SetHidden(db, t, "experiment_state",
              get_experiment_state(db, experiment_state_uuid, TRUE))

(* hide_project that hides the project's experiments with it *)
hide_projectCascade(db, t, project_name) ==
    LET h == SetHidden(db, t, "project", get_project(db, project_name, TRUE))
    IN IF h.status # "ok" THEN h
       ELSE [h EXCEPT !.db.experiment =
               {IF e.project_name = project_name
                THEN [e EXCEPT !.hidden = TRUE] ELSE e : e \in @}]

hide_project(db, t, project_name) ==
    SetHidden(db, t, "project", get_project(db, project_name, TRUE))

hide_experiment(db, t, experiment_uuid) ==
    SetHidden(db, t, "experiment", get_experiment(db, experiment_uuid, TRUE))

----------------------------------------------------------------------------
(* The command line front end: hide evaluations / hide models.  The        *)
(* handlers call db.evaluation_uuid_exists, db.hide_evaluation,            *)
(* db.get_evaluations, db.model_uuid_exists, db.hide_model, db.get_models. *)

NoList == <<>>

(* looking a method up on the ExpDB instance *)
DbAttr(attr) == IF attr \in ExpDBAttrs THEN "ok" ELSE "AttributeError"

(* what the front end expects of its <kind>_uuid_exists / hide_<kind>      *)
uuid_exists(db, uuid) == \E r \in db.experiment : r.uuid = uuid

hide_kind(db, t, uuid) == hide_experiment(db, t, uuid)

Said(uuid, what) == <<uuid, what>>

RECURSIVE HideEach(_, _, _, _, _, _)
(* for cur_uuid in uuid_list.split(','): ... *)
HideEach(db, t, ids, out, exists_attr, hide_attr) ==
    IF ids = <<>> THEN [status |-> "ok", db |-> db, out |-> out]
    ELSE LET cur == Head(ids)
         IN IF DbAttr(exists_attr) # "ok"
            THEN [status |-> DbAttr(exists_attr), db |-> db, out |-> out]
            ELSE IF ~uuid_exists(db, cur)
            THEN HideEach(db, t, Tail(ids),
                          Append(out, Said(cur, "is not a valid id")),
                          exists_attr, hide_attr)
            ELSE IF DbAttr(hide_attr) # "ok"
            THEN [status |-> DbAttr(hide_attr), db |-> db, out |-> out]
            ELSE LET h == hide_kind(db, t, cur)
                 IN IF h.status # "ok"
                    THEN [status |-> h.status, db |-> h.db, out |-> out]
                    ELSE HideEach(h.db, t, Tail(ids),
                                  Append(out, Said(cur, "is now hidden")),
                                  exists_attr, hide_attr)

(* hide all the visible records of the kind: db.get_<kind>s comes first *)
HideAll(db, t, get_attr, hide_attr) ==
    IF DbAttr(get_attr) # "ok"
    THEN [status |-> DbAttr(get_attr), db |-> db, out |-> <<>>]
    ELSE HideEach(db, t, <<>>, <<>>, get_attr, hide_attr)

hide_evaluations(db, t, uuid, uuid_list) ==
    IF uuid_list # NoList
    THEN IF uuid # NoneVal
         THEN [status |-> "AssertionError", db |-> db, out |-> <<>>]
         ELSE HideEach(db, t, uuid_list, <<>>, "evaluation_uuid_exists",
                       "hide_evaluation")
    ELSE HideAll(db, t, "get_evaluations", "hide_evaluation")

hide_models(db, t, uuid, uuid_list, all) ==
    IF uuid # NoneVal
    THEN IF uuid_list # NoList \/ all
         THEN [status |-> "AssertionError", db |-> db, out |-> <<>>]
         ELSE HideEach(db, t, <<uuid>>, <<>>, "model_uuid_exists",
                       "hide_model")
    ELSE IF uuid_list # NoList
    THEN IF all
         THEN [status |-> "AssertionError", db |-> db, out |-> <<>>]
         ELSE HideEach(db, t, uuid_list, <<>>, "model_uuid_exists",
                       "hide_model")
    ELSE IF ~all
         THEN [status |-> "AssertionError", db |-> db, out |-> <<>>]
         ELSE HideAll(db, t, "get_models", "hide_model")

----------------------------------------------------------------------------
(* Identifiers: gen_short_uuid *)

(* a 128-bit number is held as NumLimbs digits to the base LimbBase, most  *)
(* significant first, so that every step of the arithmetic is exact        *)
LimbBase == 65536
NumLimbs == 8
uuid_length == 10

alphabet ==
    << "2", "3", "4", "5", "6", "7", "8", "9",
       "A", "B", "C", "D", "E", "F", "G", "H", "J", "K", "L", "M", "N", "P",
       "Q", "R", "S", "T", "U", "V", "W", "X", "Y", "Z",
       "a", "b", "c", "d", "e", "f", "g", "h", "i", "j", "k", "m", "n", "o",
       "p", "q", "r", "s", "t", "u", "v", "w", "x", "y", "z" >>

(* the random limbs the model draws from *)
LimbValues == {0, 1, LimbBase - 1}
RandomBits == [1..NumLimbs -> LimbValues]

(* uuid.uuid4().int: 128 random bits with the version nibble set to 4     *)
(* (bits 76..79) and the variant bits set to binary 10 (bits 62..63)      *)
uuid4(random) ==
    [i \in 1..NumLimbs |->
        IF i = 4 THEN (random[i] % 4096) + 4 * 4096
        ELSE IF i = 5 THEN (random[i] % 16384) + 2 * 16384
        ELSE random[i]]

(* num > 0 *)
Positive(num) == \E i \in 1..Len(num) : num[i] > 0

(* divmod(num, d), by long division *)
divmod(num, d) ==
    LET r[i \in 0..Len(num)] ==
            IF i = 0 THEN 0 ELSE (r[i - 1] * LimbBase + num[i]) % d
    IN [quot |-> [i \in 1..Len(num) |->
                     (r[i - 1] * LimbBase + num[i]) \div d],
        rem |-> r[Len(num)]]

RECURSIVE Digits(_, _)
(* while num > 0: num, digit = divmod(num, len(alphabet));                *)
(*                res.append(alphabet[digit])                             *)
Digits(num, res) ==
    IF ~Positive(num) THEN res
    ELSE LET dm == divmod(num, Len(alphabet))
         IN Digits(dm.quot, Append(res, alphabet[dm.rem + 1]))

(* reversed(res) *)
Reversed(res) == [i \in 1..Len(res) |-> res[Len(res) + 1 - i]]

NoChars == [given |-> FALSE, n |-> 0]
Chars(n) == [given |-> TRUE, n |-> n]

(* gen_short_uuid that returns every digit *)
gen_short_uuidWhole(num, num_chars) == Reversed(Digits(num, <<>>))

(* the module's gen_short_uuid, num being uuid.uuid4().int *)
gen_short_uuid(num, num_chars) ==
    LET res2 == Reversed(Digits(num, <<>>))
    IN IF ~num_chars.given THEN res2
       ELSE SubSeq(res2, 1, IF num_chars.n < Len(res2) THEN num_chars.n
                            ELSE Len(res2))

(* ExpDB.gen_short_uuid *)
ExpDB_gen_short_uuid(num) == gen_short_uuid(num, Chars(uuid_length))

----------------------------------------------------------------------------
(* The command line front end: list experiments *)

(* --after / --before: not given, or the instant dateparser.parse made of  *)
(* the text, on the scale of creation_time                                 *)
NoDate == [given |-> FALSE, at |-> NoTime]
Date(t) == [given |-> TRUE, at |-> t]

(* the list db.get_experiments returns: the rows in the order the query,   *)
(* which has no ORDER BY, happens to yield them                            *)
Orders(rows) ==
    {q \in [1..Cardinality(rows) -> rows] :
        \A i, j \in 1..Cardinality(rows) : i # j => q[i] # q[j]}

RECURSIVE SortedByTime(_)
(* sorted(exps, key=lambda x: x.creation_time): stable *)
SortedByTime(q) ==
    IF q = <<>> THEN <<>>
    ELSE LET x == Head(q)
             rest == SortedByTime(Tail(q))
             Before(e) == e.creation_time < x.creation_time
             NotBefore(e) == e.creation_time >= x.creation_time
         IN SelectSeq(rest, Before) \o <<x>> \o SelectSeq(rest, NotBefore)

(* name_filter in x.name, for the names of the model, none of which is a   *)
(* proper part of another                                                  *)
InName(name_filter, name) == name_filter = name

(* the line printed for one experiment *)
Line(m, show_hidden) ==
    [uuid |-> m.uuid, creation_time |-> m.creation_time, name |-> m.name,
     tags |-> m.tags, hidden |-> IF show_hidden THEN m.hidden ELSE FALSE,
     with_hidden |-> show_hidden]

Printed(exps, show_hidden) ==
    [i \in 1..Len(exps) |-> Line(exps[i], show_hidden)]

(* list_experiments whose --after test is > *)
list_experimentsStrictAfter(db, exps0, show_hidden, after, before, name_filter, uuid) ==
    LET AfterOk(x) == x.creation_time > after.at
        BeforeOk(x) == x.creation_time <= before.at
        e1 == SortedByTime(exps0)
        e2 == IF after.given THEN SelectSeq(e1, AfterOk) ELSE e1
        e3 == IF before.given THEN SelectSeq(e2, BeforeOk) ELSE e2
    IN [status |-> "ok", db |-> db, out |-> Printed(e3, show_hidden)]

(* exps0 is db.get_experiments(show_hidden=show_hidden) *)
list_experiments(db, exps0, show_hidden, after, before, name_filter, uuid) ==
    LET AfterOk(x) == x.creation_time >= after.at
        BeforeOk(x) == x.creation_time <= before.at
        NameOk(x) == InName(name_filter, x.name)
        e1 == SortedByTime(exps0)
        e2 == IF after.given THEN SelectSeq(e1, AfterOk) ELSE e1
        e3 == IF before.given THEN SelectSeq(e2, BeforeOk) ELSE e2
    IN IF name_filter # NoneVal /\ \E i \in 1..Len(e3) : e3[i].name = NoneVal
       THEN [status |-> "TypeError", db |-> db, out |-> <<>>]
       ELSE IF uuid # NoneVal
       THEN [status |-> "UnboundLocalError", db |-> db, out |-> <<>>]
       ELSE [status |-> "ok", db |-> db,
             out |-> Printed(IF name_filter # NoneVal
                             THEN SelectSeq(e3, NameOk) ELSE e3,
                             show_hidden)]

----------------------------------------------------------------------------
(* The state machine *)

(* ExpDB.__init__ creates the tables only when the database does not      *)
(* exist yet; an existing database is used as it is.  create_experiment_   *)
(* state inserts no experiment_state row, so the rows of that table are    *)
(* the ones the database came with.                                        *)
StateRow(uuid, parent) ==
    [uuid |-> uuid, name |-> NoneVal, tags |-> NoneVal,
     data |-> JsonDumps(DataA1), experiment_uuid |-> parent,
     description |-> NoneVal, creation_time |-> 1, hidden |-> FALSE]

ProjectRow(name) ==
    [name |-> name, tags |-> NoneVal, description |-> NoneVal,
     data |-> JsonDumps(DataA1), creation_time |-> 1, hidden |-> FALSE]

ExperimentRow(uuid, parent) ==
    [uuid |-> uuid, name |-> NoneVal, tags |-> NoneVal,
     data |-> JsonDumps(DataA1), project_name |-> parent,
     description |-> NoneVal, creation_time |-> 1, hidden |-> FALSE]

EmptyStore == [project |-> {}, experiment |-> {}, experiment_state |-> {}]

SeededStore ==
    [project |-> {ProjectRow("p1")},
     experiment |-> {ExperimentRow("u1", "p1")},
     experiment_state |-> {StateRow("u1", "u1")}]

ExistingStores == {EmptyStore, SeededStore}

UuidLists == {<<a>> : a \in UuidPool} \cup {<<a, b>> : a, b \in UuidPool}

(* no call in progress: the caller holds no result *)
Idle == [op |-> "idle", args |-> [none |-> TRUE], status |-> "ok",
         value |-> {}, txn |-> "none"]

Init ==
    /\ \E store \in ExistingStores :
        /\ project = store.project
        /\ experiment = store.experiment
        /\ experiment_state = store.experiment_state
    /\ now = 1
    /\ writes = 0
    /\ last = Idle

(* the handler returned or raised: the store is what it left *)
Done(op, args, r) ==
    /\ last = Idle
    /\ r.db # DB => writes < MaxWrites
    /\ project' = r.db.project
    /\ experiment' = r.db.experiment
    /\ experiment_state' = r.db.experiment_state
    /\ writes' = IF r.db # DB THEN writes + 1 ELSE writes
    /\ last' = [op |-> op, args |-> args, status |-> r.status,
                value |-> r.value, txn |-> r.txn]

(* the server clock func.now() reads at an INSERT: it never runs backwards *)
Clock == {t \in {now, now + 1} : t <= MaxClock}

Created(op, args, r, t) ==
    /\ Done(op, args, r)
    /\ now' = IF r.db # DB THEN t ELSE now

Called(op, args, r) ==
    /\ Done(op, args, r)
    /\ UNCHANGED now

Read(op, args, q) ==
    Called(op, args, run_query_with_optional_session(DB, q, now))

(* the caller is done with what the call gave it *)
Forget ==
    /\ last # Idle
    /\ last' = Idle
    /\ UNCHANGED <<project, experiment, experiment_state, now, writes>>

CreateProject ==
    \E name \in Names, data \in CreateData, t \in Clock :
        Created("create_project", [name |-> name, data |-> data],
             create_project(DB, t, name, data, NoneVal, NoneVal), t)

CreateExperiment ==
    \E new_id \in UuidPool, project_name \in Names, data \in CreateData,
       name \in ExpNames, t \in Clock :
        Created("create_experiment",
             [uuid |-> new_id, project_name |-> project_name, data |-> data,
              name |-> name],
             create_experiment(DB, t, new_id, project_name, data, name,
                               NoneVal, NoneVal), t)

CreateExperimentState ==
    \E new_id \in UuidPool, experiment_uuid \in UuidPool,
       data \in CreateData, t \in Clock :
        Created("create_experiment_state",
             [experiment_uuid |-> experiment_uuid, data |-> data],
             create_experiment_state(DB, t, new_id, experiment_uuid, data,
                                     NoneVal, NoneVal, NoneVal), t)

GetProject ==
    \E name \in Names, assert_exists \in BOOLEAN :
        Read("get_project", [id |-> name, assert_exists |-> assert_exists],
             get_project(DB, name, assert_exists))

GetExperiment ==
    \E uuid \in UuidPool, assert_exists \in BOOLEAN :
        Read("get_experiment", [id |-> uuid, assert_exists |-> assert_exists],
             get_experiment(DB, uuid, assert_exists))

GetExperimentState ==
    \E uuid \in UuidPool, assert_exists \in BOOLEAN :
        Read("get_experiment_state",
             [id |-> uuid, assert_exists |-> assert_exists],
             get_experiment_state(DB, uuid, assert_exists))

GetProjects ==
    \E names \in {NoFilter, {"p1"}},
       show_hidden \in BOOLEAN :
        Read("get_projects", [ids |-> names, show_hidden |-> show_hidden],
             Return(get_projects(DB, names, show_hidden)))

GetExperiments ==
    \E uuids \in {NoFilter, {"u1"}},
       show_hidden \in BOOLEAN :
        Read("get_experiments", [ids |-> uuids, show_hidden |-> show_hidden],
             Return(get_experiments(DB, uuids, show_hidden)))

GetExperimentStates ==
    \E uuids \in {NoFilter, {"u1"}},
       show_hidden \in BOOLEAN :
        Read("get_experiment_states",
             [ids |-> uuids, show_hidden |-> show_hidden],
             Return(get_experiment_states(DB, uuids, show_hidden)))

UpdateProjectData ==
    \E name \in Names, data \in UpdateData :
        Called("update_project_data", [id |-> name, data |-> data],
             update_project_data(DB, now, name, data))

UpdateExperimentData ==
    \E uuid \in UuidPool, data \in UpdateData :
        Called("update_experiment_data", [id |-> uuid, data |-> data],
             update_experiment_data(DB, now, uuid, data))

UpdateExperimentStateData ==
    \E uuid \in UuidPool, data \in UpdateData :
        Called("update_experiment_state_data", [id |-> uuid, data |-> data],
             update_experiment_state_data(DB, now, uuid, data))

HideProject ==
    \E name \in Names :
        Called("hide_project", [id |-> name], hide_project(DB, now, name))

HideExperiment ==
    \E uuid \in UuidPool :
        Called("hide_experiment", [id |-> uuid], hide_experiment(DB, now, uuid))

HideExperimentState ==
    \E uuid \in UuidPool :
        Called("hide_experiment_state", [id |-> uuid],
             hide_experiment_state(DB, now, uuid))

(* a command of the front end: what it printed is the value *)
Cli(op, args, c) ==
    Called(op, args, [status |-> c.status, value |-> {c.out}, db |-> c.db,
                    txn |-> IF c.db = DB THEN "none" ELSE "commit"])

CliHideEvaluations ==
    \E uuid \in {NoneVal} \cup UuidPool, uuid_list \in {NoList} \cup UuidLists :
        Cli("hide evaluations", [uuid |-> uuid, uuid_list |-> uuid_list],
            hide_evaluations(DB, now, uuid, uuid_list))

CliHideModels ==
    \E uuid \in {NoneVal} \cup UuidPool, uuid_list \in {NoList} \cup UuidLists,
       all \in BOOLEAN :
        Cli("hide models",
            [uuid |-> uuid, uuid_list |-> uuid_list, all |-> all],
            hide_models(DB, now, uuid, uuid_list, all))

Next ==
    \/ Forget
    \/ CreateProject
    \/ CreateExperiment
    \/ CreateExperimentState
    \/ GetProject
    \/ GetExperiment
    \/ GetExperimentState
    \/ GetProjects
    \/ GetExperiments
    \/ GetExperimentStates
    \/ UpdateProjectData
    \/ UpdateExperimentData
    \/ UpdateExperimentStateData
    \/ HideProject
    \/ HideExperiment
    \/ HideExperimentState

Spec == Init /\ [][Next]_vars

Dates == {NoDate} \cup {Date(t) : t \in 1..MaxClock}

CliListExperiments ==
    \E show_hidden \in BOOLEAN, after \in Dates, before \in Dates,
       name_filter \in ExpNames, uuid \in {NoneVal, "u1"} :
      \E exps0 \in Orders(get_experiments(DB, NoFilter, show_hidden)) :
        /\ (name_filter # NoneVal \/ uuid # NoneVal)
              => after = NoDate /\ before = NoDate
        /\ Cli("list experiments",
            [show_hidden |-> show_hidden, after |-> after, before |-> before,
             name_filter |-> name_filter, uuid |-> uuid],
            list_experiments(DB, exps0, show_hidden, after, before,
                             name_filter, uuid))

(* the front end over a store that experiments are created and hidden in *)
NextCli ==
    \/ Forget
    \/ CreateExperiment
    \/ HideExperiment
    \/ CliHideEvaluations
    \/ CliHideModels

SpecCli == Init /\ [][NextCli]_vars

(* an identifier is generated; random is what the system's random source  *)
(* gave uuid4                                                              *)
GenShortUuid ==
    \E random \in RandomBits :
        Called("gen_short_uuid", [random |-> random],
               [status |-> "ok",
                value |-> {ExpDB_gen_short_uuid(uuid4(random))},
                db |-> DB, txn |-> "none"])

NextUuid ==
    \/ Forget
    \/ GenShortUuid

SpecUuid == Init /\ [][NextUuid]_vars

(* list experiments over a store that experiments are created and hidden in *)
NextList ==
    \/ Forget
    \/ CreateExperiment
    \/ HideExperiment
    \/ CliListExperiments

SpecList == Init /\ [][NextList]_vars

----------------------------------------------------------------------------
(* session_scope, statement by statement.  last holds the scope in         *)
(* progress: the session, where the generator stands (pc), the exception   *)
(* in flight (status), the store as the scope found it (before) and the    *)
(* change the body made to the session (wrote).                            *)

(* self.sessionmaker() *)
sessionmaker == [work |-> NoWork, commits |-> 0, rollbacks |-> 0,
                 closed |-> FALSE]

(* session.commit() that succeeded, session.rollback(), session.close() *)
Committed(session) == [session EXCEPT !.work = NoWork, !.commits = @ + 1]
RolledBack(session) == [session EXCEPT !.work = NoWork, !.rollbacks = @ + 1]
Closed(session) == [session EXCEPT !.closed = TRUE]

(* a read that runs a scope of its own on the session it was handed *)
run_query_with_sessionScoped(session, q) ==
    [status |-> q.status, value |-> q.value,
     session |-> Closed(Committed(session))]

(* run_query_with_optional_session(query, session) with a session given:   *)
(* return query(session)                                                   *)
run_query_with_session(session, q) ==
    [status |-> q.status, value |-> q.value, session |-> session]

(* the bodies run inside a scope: those of hide_project,                   *)
(* update_project_data, create_project, and the query of a get_project     *)
(* that was handed no session                                              *)
ScopeKinds == {"hide_project", "update_project_data", "create_project",
               "get_project"}
ScopeBodies == [kind : ScopeKinds, name : Names, data : {DataA1, DataB2}]

InScope(pc) == last.op = "session_scope" /\ last.pc = pc

ScopeStep(l) ==
    /\ last' = l
    /\ UNCHANGED writes

(* session = self.sessionmaker(); yield session *)
ScopeOpen ==
    /\ last = Idle
    /\ writes < MaxWrites
    /\ writes' = writes + 1
    /\ \E body \in ScopeBodies :
        last' = [op |-> "session_scope", args |-> body,
                 pc |-> IF body.kind = "create_project" THEN "write"
                        ELSE "read",
                 session |-> sessionmaker, status |-> "ok", value |-> {},
                 before |-> DB, wrote |-> NoWork]
    /\ UNCHANGED <<project, experiment, experiment_state, now>>

(* the body's get_project(name, session=session, assert_exists=True), or   *)
(* query(sess) of the read that owns the scope                             *)
ScopeRead ==
    /\ InScope("read")
    /\ LET g == run_query_with_session(last.session,
                    get_project(DB, last.args.name, TRUE))
       IN ScopeStep([last EXCEPT
                !.session = g.session, !.status = g.status,
                !.value = g.value,
                !.pc = IF g.status # "ok" THEN "except"
                       ELSE IF last.args.kind = "get_project" THEN "commit"
                       ELSE "write"])
    /\ UNCHANGED <<project, experiment, experiment_state, now>>

(* the body's change: proj.hidden = True, or session.add(new_project), or  *)
(* project.data.update(data) .. session.add(project); session.commit()     *)
ScopeWrite ==
    /\ InScope("write")
    /\ LET kind == last.args.kind
           w == IF kind = "create_project"
                THEN Insert("project",
                       [name |-> last.args.name, tags |-> NoneVal,
                        description |-> NoneVal, data |-> last.args.data,
                        creation_time |-> NoTime, hidden |-> FALSE])
                ELSE IF kind = "hide_project"
                THEN Update("project",
                       [The(last.value) EXCEPT !.hidden = TRUE])
                ELSE Update("project",
                       [The(last.value) EXCEPT
                            !.data = DictUpdate(@, last.args.data)])
           f == Flush(DB, w, now)
       IN IF kind = "update_project_data"
          THEN /\ project' = f.db.project
               /\ ScopeStep([last EXCEPT
                       !.session = Committed(@), !.wrote = w,
                       !.value = {}, !.pc = "commit"])
          ELSE /\ UNCHANGED project
               /\ ScopeStep([last EXCEPT
                       !.session.work = w, !.wrote = w, !.value = {},
                       !.pc = "commit"])
    /\ UNCHANGED <<experiment, experiment_state, now>>

(* session.commit() after the yield *)
ScopeCommit ==
    /\ InScope("commit")
    /\ \E t \in Clock :
        LET f == Flush(DB, last.session.work, t)
        IN IF f.status = "ok"
           THEN /\ project' = f.db.project
                /\ now' = IF f.db # DB THEN t ELSE now
                /\ ScopeStep([last EXCEPT !.session = Committed(@),
                                          !.pc = "finally"])
           ELSE /\ UNCHANGED <<project, now>>
                /\ ScopeStep([last EXCEPT !.status = f.status,
                                          !.pc = "except"])
    /\ UNCHANGED <<experiment, experiment_state>>

(* except: session.rollback(); raise *)
ScopeExcept ==
    /\ InScope("except")
    /\ ScopeStep([last EXCEPT !.session = RolledBack(@), !.pc = "finally"])
    /\ UNCHANGED <<project, experiment, experiment_state, now>>

(* finally: session.close() *)
ScopeClose ==
    /\ InScope("finally")
    /\ ScopeStep([last EXCEPT !.session = Closed(@), !.pc = "done"])
    /\ UNCHANGED <<project, experiment, experiment_state, now>>

(* the caller has the value or the exception *)
ScopeReturn ==
    /\ InScope("done")
    /\ ScopeStep(Idle)
    /\ UNCHANGED <<project, experiment, experiment_state, now>>

NextScope ==
    \/ ScopeOpen
    \/ ScopeRead
    \/ ScopeWrite
    \/ ScopeCommit
    \/ ScopeExcept
    \/ ScopeClose
    \/ ScopeReturn

SpecScope == Init /\ [][NextScope]_vars

----------------------------------------------------------------------------
(* Two clients on one store.  A create is two scopes, the INSERT and then  *)
(* the read-back; another client's hide is one scope and may be committed  *)
(* between them.  last holds the first client's create: pc says whether    *)
(* the read-back is still to come, before is the store the call found.     *)

(* create_project up to the end of its with block *)
create_project_add(db, t, name, data, description, tags) ==
    IF ~is_jsonable(data)
    THEN [status |-> "AssertionError", db |-> db, txn |-> "none"]
    ELSE
    LET kwargs == [name |-> name, description |-> description, tags |-> tags,
                   data |-> data, hidden |-> FALSE]
        c == Construct(ProjectAttrs, kwargs)
        row == [name |-> name, tags |-> tags, description |-> description,
                data |-> data, creation_time |-> NoTime, hidden |-> FALSE]
        s == session_scope(db,
               IF c # "ok" THEN [status |-> c, work |-> NoWork]
               ELSE [status |-> "ok", work |-> Insert("project", row)], t)
    IN [status |-> s.status, db |-> s.db, txn |-> s.txn]

(* create_experiment up to the end of its with block *)
create_experiment_add(db, t, new_id, project_name, data, name, description, tags) ==
    IF ~is_jsonable(data)
    THEN [status |-> "AssertionError", db |-> db, txn |-> "none"]
    ELSE
    LET kwargs == [uuid |-> new_id, project_name |-> project_name,
                   name |-> name, description |-> description, tags |-> tags,
                   data |-> data, hidden |-> FALSE]
        c == Construct(ExperimentAttrs, kwargs)
        row == [uuid |-> new_id, name |-> name, tags |-> tags,
                data |-> data, project_name |-> project_name,
                description |-> description, creation_time |-> NoTime,
                hidden |-> FALSE]
        s == session_scope(db,
               IF c # "ok" THEN [status |-> c, work |-> NoWork]
               ELSE [status |-> "ok", work |-> Insert("experiment", row)], t)
    IN [status |-> s.status, db |-> s.db, txn |-> s.txn]

Added(op, args, s, t) ==
    /\ last = Idle
    /\ writes < MaxWrites
    /\ writes' = writes + 1
    /\ project' = s.db.project
    /\ experiment' = s.db.experiment
    /\ experiment_state' = s.db.experiment_state
    /\ now' = IF s.db # DB THEN t ELSE now
    /\ last' = [op |-> op, args |-> args, status |-> s.status, value |-> {},
                txn |-> s.txn,
                pc |-> IF s.status = "ok" THEN "read_back" ELSE "done",
                before |-> DB]

ConcCreateProject ==
    \E name \in Names, data \in CreateData, t \in Clock :
        Added("create_project", [id |-> name, data |-> data],
              create_project_add(DB, t, name, data, NoneVal, NoneVal), t)

ConcCreateExperiment ==
    \E new_id \in UuidPool, project_name \in Names, data \in CreateData,
       name \in ExpNames, t \in Clock :
        Added("create_experiment",
              [id |-> new_id, project_name |-> project_name, data |-> data,
               name |-> name],
              create_experiment_add(DB, t, new_id, project_name, data, name,
                                    NoneVal, NoneVal), t)

(* return self.get_project(name=name, assert_exists=True), or              *)
(* return self.get_experiment(uuid=new_id, assert_exists=True)             *)
ConcReadBack ==
    /\ last.op \in {"create_project", "create_experiment"}
    /\ last.pc = "read_back"
    /\ LET g == run_query_with_optional_session(DB,
                  IF last.op = "create_project"
                  THEN get_project(DB, last.args.id, TRUE)
                  ELSE get_experiment(DB, last.args.id, TRUE), now)
       IN last' = [last EXCEPT !.status = g.status, !.value = g.value,
                               !.pc = "done"]
    /\ UNCHANGED <<project, experiment, experiment_state, now, writes>>

ConcReturn ==
    /\ last.op \in {"create_project", "create_experiment"}
    /\ last.pc = "done"
    /\ last' = Idle
    /\ UNCHANGED <<project, experiment, experiment_state, now, writes>>

(* a hide of the other client that commits *)
OtherHides(r) ==
    /\ r.db # DB
    /\ writes < MaxWrites
    /\ writes' = writes + 1
    /\ project' = r.db.project
    /\ experiment' = r.db.experiment
    /\ experiment_state' = r.db.experiment_state
    /\ UNCHANGED <<now, last>>

OtherHidesProject == \E name \in Names : OtherHides(hide_project(DB, now, name))

OtherHidesExperiment ==
    \E uuid \in UuidPool : OtherHides(hide_experiment(DB, now, uuid))

NextConc ==
    \/ ConcCreateProject
    \/ ConcCreateExperiment
    \/ ConcReadBack
    \/ ConcReturn
    \/ OtherHidesProject
    \/ OtherHidesExperiment

SpecConc == Init /\ [][NextConc]_vars

----------------------------------------------------------------------------
(* Bulk reads with the collections their subqueryload options fill in.     *)
(* The relationships carry no condition on hidden.                         *)

(* Experiment.states *)
Experiment_states(db, e) ==
    {Load(x) : x \in {r \in db.experiment_state : r.experiment_uuid = e.uuid}}

(* Project.experiments *)
Project_experiments(db, p) ==
    {Load(x) : x \in {r \in db.experiment : r.project_name = p.name}}

(* subqueryload(Experiment.states) *)
WithStates(db, e) == [row |-> e, states |-> Experiment_states(db, e)]

(* subqueryload(Project.experiments).subqueryload(Experiment.states) *)
WithExperiments(db, p) ==
    [row |-> p,
     experiments |-> {WithStates(db, e) : e \in Project_experiments(db, p)}]

GetProjectsLoaded ==
    \E names \in {NoFilter, {"p1"}}, show_hidden \in BOOLEAN :
        Read("get_projects", [ids |-> names, show_hidden |-> show_hidden],
             Return({WithExperiments(DB, p) :
                        p \in get_projects(DB, names, show_hidden)}))

GetExperimentsLoaded ==
    \E uuids \in {NoFilter, {"u1"}}, show_hidden \in BOOLEAN :
        Read("get_experiments", [ids |-> uuids, show_hidden |-> show_hidden],
             Return({WithStates(DB, e) :
                        e \in get_experiments(DB, uuids, show_hidden)}))

NextLoad ==
    \/ Forget
    \/ CreateProject
    \/ CreateExperiment
    \/ HideProject
    \/ HideExperiment
    \/ HideExperimentState
    \/ GetProjectsLoaded
    \/ GetExperimentsLoaded

SpecLoad == Init /\ [][NextLoad]_vars

----------------------------------------------------------------------------
(* Properties *)

After == [project |-> project', experiment |-> experiment',
          experiment_state |-> experiment_state']

StoreUnchanged == UNCHANGED <<project, experiment, experiment_state>>

OnlyValue(r) == last'.value = {r}

(* C1 as stated: create_project(name, data) for a name not yet stored and  *)
(* JSON-serializable data succeeds and hands back, as its own read-back    *)
(* and as a following get_project(name), a record whose name and data      *)
(* equal the arguments, hidden false, creation timestamp non-null.         *)
C1_DataEqualsArgument ==
    [][(/\ last'.op = "create_project"
        /\ is_jsonable(last'.args.data)
        /\ ~\E r \in project : r.name = last'.args.name)
       => /\ last'.status = "ok"
          /\ \E r \in last'.value :
               /\ OnlyValue(r)
               /\ r.name = last'.args.name
               /\ r.data = last'.args.data
               /\ r.hidden = FALSE
               /\ r.creation_time # NoTime
          /\ get_project(After, last'.args.name, TRUE) = Return(last'.value)
      ]_vars

(* C1 amended: the same, with the record's data equal to the argument as   *)
(* json.loads reads back what json.dumps wrote of it.                      *)
C1_CreateThenGet ==
    [][(/\ last'.op = "create_project"
        /\ is_jsonable(last'.args.data)
        /\ ~\E r \in project : r.name = last'.args.name)
       => /\ last'.status = "ok"
          /\ \E r \in last'.value :
               /\ OnlyValue(r)
               /\ r.name = last'.args.name
               /\ r.data = JsonLoads(JsonDumps(last'.args.data))
               /\ r.hidden = FALSE
               /\ r.creation_time # NoTime
               /\ \A k \in DOMAIN last'.args.data.items :
                    k.kt = "str" => /\ k \in DOMAIN r.data.items
                                    /\ r.data.items[k] = last'.args.data.items[k]
          /\ get_project(After, last'.args.name, TRUE) = Return(last'.value)
      ]_vars

C1_Witness ==
    /\ last.op = "create_project"
    /\ last.status = "ok"
    /\ last.args.data = DataI1
    /\ \E r \in last.value : r.data # last.args.data

(* C2: create_project with a name that is already stored, visible or       *)
(* hidden, fails; the store then holds exactly one project of that name,   *)
(* and it is the original one.                                             *)
C2_DuplicateNameFails ==
    [][(/\ last'.op = "create_project"
        /\ \E r \in project : r.name = last'.args.name)
       => /\ last'.status # "ok"
          /\ Cardinality({r \in project' : r.name = last'.args.name}) = 1
          /\ project' = project
      ]_vars

C2_Witness ==
    /\ last.op = "create_project"
    /\ last.status = "IntegrityError"
    /\ \E r \in project : r.name = last.args.name /\ r.hidden = TRUE

Visible(table, key, id) == \E r \in table : r[key] = id /\ r.hidden = FALSE
Hidden(table, key, id) == \E r \in table : r[key] = id /\ r.hidden = TRUE
Stored(table, key, id) == \E r \in table : r[key] = id

NoHiddenIn(result) == \A r \in result : r.hidden # TRUE

BulkGets == {"get_projects", "get_experiments", "get_experiment_states"}

(* C3: after hide_project(name) on a visible project, get_projects()       *)
(* leaves the project out and get_projects(show_hidden=True) has it with   *)
(* hidden = true; the same for hide_experiment and get_experiments.  No    *)
(* bulk get with show_hidden=False returns a record whose hidden flag is   *)
(* true.                                                                   *)
C3_HiddenExcludedByDefault ==
    [][/\ (last'.op = "hide_project"
           /\ Visible(project, "name", last'.args.id))
          => /\ \A r \in get_projects(After, NoFilter, FALSE) :
                   r.name # last'.args.id
             /\ \E r \in get_projects(After, NoFilter, TRUE) :
                   r.name = last'.args.id /\ r.hidden = TRUE
       /\ (last'.op = "hide_experiment"
           /\ Visible(experiment, "uuid", last'.args.id))
          => /\ \A r \in get_experiments(After, NoFilter, FALSE) :
                   r.uuid # last'.args.id
             /\ \E r \in get_experiments(After, NoFilter, TRUE) :
                   r.uuid = last'.args.id /\ r.hidden = TRUE
       /\ NoHiddenIn(get_projects(After, NoFilter, FALSE))
       /\ NoHiddenIn(get_experiments(After, NoFilter, FALSE))
       /\ NoHiddenIn(get_experiment_states(After, NoFilter, FALSE))
       /\ (last'.op \in BulkGets /\ ~last'.args.show_hidden)
          => NoHiddenIn(last'.value)
      ]_vars

C3_Witness ==
    /\ last.op = "get_projects"
    /\ last.args = [ids |-> NoFilter, show_hidden |-> FALSE]
    /\ \E r \in project : r.hidden = TRUE /\ Load(r) \notin last.value
    /\ \E r \in last.value : r.hidden = FALSE

Merged(old, new, d) == Load(new).data = DictUpdate(Load(old).data, d)

(* C4: update_experiment_data(uuid, d) on a stored experiment whose        *)
(* metadata map is e leaves the stored map equal to e overridden by d;     *)
(* the same for update_project_data and update_experiment_state_data.      *)
C4_UpdateMerges ==
    [][/\ (last'.op = "update_experiment_data"
           /\ is_jsonable(last'.args.data))
          => \A e \in experiment : e.uuid = last'.args.id =>
               \E e2 \in experiment' :
                   e2.uuid = e.uuid /\ Merged(e, e2, last'.args.data)
       /\ (last'.op = "update_project_data"
           /\ is_jsonable(last'.args.data))
          => \A e \in project : e.name = last'.args.id =>
               \E e2 \in project' :
                   e2.name = e.name /\ Merged(e, e2, last'.args.data)
       /\ (last'.op = "update_experiment_state_data"
           /\ is_jsonable(last'.args.data))
          => \A e \in experiment_state : e.uuid = last'.args.id =>
               \E e2 \in experiment_state' :
                   e2.uuid = e.uuid /\ Merged(e, e2, last'.args.data)
      ]_vars

HideOne(table, key, id) ==
    {IF r[key] = id THEN [r EXCEPT !.hidden = TRUE] ELSE r : r \in table}

(* C5: hide_project changes nothing but the hidden flag of that one        *)
(* project: its experiments, their states and every other record keep      *)
(* every field; hide_experiment changes nothing but the hidden flag of     *)
(* that one experiment.                                                    *)
C5_HideDoesNotCascade ==
    [][/\ last'.op = "hide_project"
          => /\ project' \in {project,
                              HideOne(project, "name", last'.args.id)}
             /\ UNCHANGED <<experiment, experiment_state>>
       /\ last'.op = "hide_experiment"
          => /\ experiment' \in {experiment,
                                 HideOne(experiment, "uuid", last'.args.id)}
             /\ UNCHANGED <<project, experiment_state>>
      ]_vars

C5_Witness ==
    /\ last.op = "hide_project"
    /\ last.status = "ok"
    /\ Hidden(project, "name", last.args.id)
    /\ \E e \in experiment :
         /\ e.project_name = last.args.id
         /\ e.hidden = FALSE
         /\ \E st \in experiment_state :
              st.experiment_uuid = e.uuid /\ st.hidden = FALSE

TableOf(op) ==
    IF op \in {"get_project", "hide_project"} THEN project
    ELSE IF op \in {"get_experiment", "hide_experiment"} THEN experiment
    ELSE experiment_state

KeyOf(op) == IF op \in {"get_project", "hide_project"} THEN "name" ELSE "uuid"

Gets == {"get_project", "get_experiment", "get_experiment_state"}
Hides == {"hide_project", "hide_experiment", "hide_experiment_state"}

(* C6: get_project / get_experiment / get_experiment_state return the      *)
(* record of that identity whenever one is stored, visible or hidden;      *)
(* with none stored they raise the assertion failure when assert_exists    *)
(* and return None otherwise.                                              *)
C6_GetFindsStoredRecord ==
    last.op \in Gets =>
        LET rows == {r \in TableOf(last.op) : r[KeyOf(last.op)] = last.args.id}
        IN IF rows = {}
           THEN IF last.args.assert_exists
                THEN last.status = "AssertionError"
                ELSE last.status = "ok" /\ last.value = {}
           ELSE /\ last.status = "ok"
                /\ last.value = {Load(r) : r \in rows}

(* C7: hiding a record that is already hidden completes without error and *)
(* leaves the store as it was.                                             *)
C7_HideIsIdempotent ==
    [][(/\ last'.op \in Hides
        /\ Hidden(TableOf(last'.op), KeyOf(last'.op), last'.args.id))
       => /\ last'.status = "ok"
          /\ StoreUnchanged
      ]_vars

(* C8: hide_project / hide_experiment / hide_experiment_state of an        *)
(* identity no stored record has fails with an assertion failure, its      *)
(* transaction is rolled back and no record of the store changes.          *)
C8_HideMissingFails ==
    [][(/\ last'.op \in Hides
        /\ ~Stored(TableOf(last'.op), KeyOf(last'.op), last'.args.id))
       => /\ last'.status = "AssertionError"
          /\ last'.txn = "rollback"
          /\ StoreUnchanged
      ]_vars

C8_Witness ==
    /\ last.op = "hide_experiment_state"
    /\ last.status = "AssertionError"
    /\ last.txn = "rollback"
    /\ ~Stored(experiment_state, "uuid", last.args.id)
    /\ experiment_state # {}
    /\ project # {}

(* C9: create_experiment_state(experiment_uuid, data) with JSON-           *)
(* serializable data persists one new ExperimentState, hidden = false,     *)
(* whose parent reference is experiment_uuid, and returns that record,     *)
(* which get_experiment_state then finds.                                  *)
C9_CreateExperimentState ==
    (last.op = "create_experiment_state" /\ is_jsonable(last.args.data))
    => /\ last.status = "ok"
       /\ \E r \in last.value :
            /\ last.value = {r}
            /\ r.experiment_uuid = last.args.experiment_uuid
            /\ r.hidden = FALSE
            /\ \E st \in experiment_state : Load(st) = r
            /\ get_experiment_state(DB, r.uuid, TRUE) = Return({r})

(* C10: the hide subcommand with the identifier list X,Y, X a visible      *)
(* record and Y no record: X ends hidden, a "not a valid id" line is       *)
(* printed for Y and the command ends without an uncaught error.           *)
C10_HideListSkipsMissing ==
    [][(/\ last'.op \in {"hide evaluations", "hide models"}
        /\ last'.args.uuid = NoneVal
        /\ Len(last'.args.uuid_list) = 2
        /\ Visible(experiment, "uuid", last'.args.uuid_list[1])
        /\ ~Stored(experiment, "uuid", last'.args.uuid_list[2])
        /\ (last'.op = "hide models" => ~last'.args.all))
       => /\ last'.status = "ok"
          /\ Hidden(experiment', "uuid", last'.args.uuid_list[1])
          /\ \E out \in last'.value : \E i \in 1..Len(out) :
               out[i] = Said(last'.args.uuid_list[2], "is not a valid id")
      ]_vars

InRange(t, after, before) ==
    /\ (after.given => t >= after.at)
    /\ (before.given => t <= before.at)

(* C11: list experiments --after A --before B prints exactly the           *)
(* experiments get_experiments(show_hidden) returns whose creation         *)
(* timestamp t has A <= t <= B, each once, in ascending order of           *)
(* timestamp; with neither flag all of them; hidden experiments only with  *)
(* --show_hidden.                                                          *)
C11_ListInRangeAscending ==
    (/\ last.op = "list experiments"
     /\ last.args.name_filter = NoneVal
     /\ last.args.uuid = NoneVal)
    => /\ last.status = "ok"
       /\ \E out \in last.value :
            /\ {out[i].uuid : i \in 1..Len(out)} =
                 {r.uuid : r \in
                    {x \in get_experiments(DB, NoFilter, last.args.show_hidden) :
                       InRange(x.creation_time, last.args.after,
                               last.args.before)}}
            /\ \A i, j \in 1..Len(out) :
                 /\ i < j => out[i].creation_time <= out[j].creation_time
                 /\ i # j => out[i].uuid # out[j].uuid
            /\ \A i \in 1..Len(out) :
                 Hidden(experiment, "uuid", out[i].uuid)
                    => last.args.show_hidden

C11_Witness ==
    /\ last.op = "list experiments"
    /\ last.args.after = Date(2)
    /\ last.args.before = Date(2)
    /\ last.args.name_filter = NoneVal
    /\ last.args.uuid = NoneVal
    /\ \E out \in last.value : Len(out) = 1 /\ out[1].creation_time = 2
    /\ \E r \in experiment : r.creation_time = 1 /\ r.hidden = FALSE

(* C12: every identifier gen_short_uuid hands to create_experiment or      *)
(* create_experiment_state is exactly 10 characters long, each one of the  *)
(* 57 characters of the alphabet, whatever 128 random bits uuid4 started   *)
(* from.                                                                   *)
C12_TenAlphabetCharacters ==
    last.op = "gen_short_uuid"
    => \A id \in last.value :
         /\ Len(id) = 10
         /\ \A i \in 1..Len(id) : \E k \in 1..57 : id[i] = alphabet[k]
         /\ Len(alphabet) = 57
         /\ \A k, l \in 1..57 : k # l => alphabet[k] # alphabet[l]

(* the least number uuid4 can give: all random bits zero *)
C12_Witness ==
    /\ last.op = "gen_short_uuid"
    /\ \A i \in 1..NumLimbs : last.args.random[i] = 0
    /\ \E id \in last.value : Len(id) = uuid_length

OneWay(table, after, key) ==
    /\ \A r \in table :
         \E r2 \in after : r2[key] = r[key] /\ (r.hidden = TRUE => r2.hidden = TRUE)
    /\ \A r2 \in after :
         (\A r \in table : r[key] # r2[key]) => r2.hidden = FALSE

(* C13: the hidden flag is one-way: a record is created with hidden false, *)
(* and a record whose hidden flag is true in the store has it true after   *)
(* every create, get, update-data and hide operation; no operation removes *)
(* a record.                                                               *)
C13_HiddenIsOneWay ==
    [][/\ OneWay(project, project', "name")
       /\ OneWay(experiment, experiment', "uuid")
       /\ OneWay(experiment_state, experiment_state', "uuid")
      ]_vars

(* a project is created under the name of a hidden project *)
C13_Witness ==
    /\ last.op = "create_project"
    /\ last.status # "ok"
    /\ Hidden(project, "name", last.args.name)

(* how a scope that has ended (pc = "done") stands *)
ScopeEnded ==
    /\ last.session.closed
    /\ last.session.work = NoWork
    /\ IF last.status = "ok"
       THEN /\ last.session.rollbacks = 0
            /\ last.session.commits >= 1
            /\ DB = Flush(last.before, last.wrote, now).db
       ELSE /\ last.session.rollbacks = 1
            /\ last.session.commits = 0
            /\ DB = last.before

(* C14: a scope opened by session_scope ends in one of two ways: the body  *)
(* finished without an exception and its writes are committed, or the body *)
(* or the commit raised, the session was rolled back, none of the body's   *)
(* writes is in the store and the caller gets the exception; either way    *)
(* the session is closed.  A read that is handed a session does not        *)
(* commit, roll back or close it.                                          *)
C14_ScopeCommitsOrRollsBack ==
    [][/\ (last'.op = "session_scope" /\ last'.pc = "done") => ScopeEnded'
       /\ (InScope("read") /\ last.args.kind # "get_project")
            => last'.session = last.session
      ]_vars

(* a create_project scope whose commit raised has ended, after an earlier  *)
(* scope in which hide_project read through the session it handed on       *)
C14_Witness ==
    /\ InScope("done")
    /\ last.args.kind = "create_project"
    /\ last.status = "IntegrityError"
    /\ last.session.rollbacks = 1
    /\ last.session.closed
    /\ \E r \in project : r.hidden = TRUE

(* C15 as stated: create_project and create_experiment are all-or-nothing  *)
(* also with another client's operations interleaved: when the call has    *)
(* raised an error to its caller, the store holds no row that the call     *)
(* inserted.                                                               *)
C15_CreateIsAllOrNothing ==
    (/\ last.op \in {"create_project", "create_experiment"}
     /\ last.pc = "done"
     /\ last.status # "ok")
    => LET key == KeyOf(IF last.op = "create_project" THEN "get_project"
                        ELSE "get_experiment")
           table == IF last.op = "create_project" THEN "project"
                    ELSE "experiment"
       IN \A r \in DB[table] :
            r[key] = last.args.id
               => \E b \in last.before[table] : b[key] = r[key]

(* C16 as stated: a default read has no hidden record at any level: no     *)
(* experiment with hidden true among the experiments loaded under a        *)
(* project that get_projects(show_hidden=False) returns, no state with     *)
(* hidden true among their loaded states, and none among the states        *)
(* loaded under an experiment that get_experiments(show_hidden=False)      *)
(* returns.                                                                *)
C16_NoHiddenAtAnyLevel ==
    /\ (last.op = "get_projects" /\ ~last.args.show_hidden)
         => \A p \in last.value :
              \A e \in p.experiments :
                 /\ e.row.hidden = FALSE
                 /\ \A st \in e.states : st.hidden = FALSE
    /\ (last.op = "get_experiments" /\ ~last.args.show_hidden)
         => \A e \in last.value :
              \A st \in e.states : st.hidden = FALSE

====
